---- MODULE Spec2Model ----
(***************************************************************************)
(* Model of the Airbnb underwriting engine (calculator.py) and of the      *)
(* routes that call it (underwriting.py).                                  *)
(*                                                                         *)
(* Numbers.  A Python number is a pair <<n, d>>: the rational n/d in       *)
(* lowest terms with d > 0.  Two pairs with d = 0 stand for the values     *)
(* that are no finite number: Inf = <<1, 0>> is float('inf') and           *)
(* None = <<0, 0>> is Python's None.  Float arithmetic applies Fl after     *)
(* each operation: with prec = 0 the result is kept exact (the arithmetic  *)
(* of the reals, which binary64 follows to about 16 digits); with prec > 0 *)
(* it is rounded to the nearest number with a prec-bit significand, ties   *)
(* to even, which is what IEEE-754 does with 53 bits.                      *)
(***************************************************************************)
EXTENDS Integers, Sequences, FiniteSets, TLC

VARIABLES
    prec,      \* significand bits of the float arithmetic; 0 = exact
    inputs,    \* instance id -> self.inputs (FinancialInputs) of that AirbnbUnderwriter
    frame,     \* frame id -> activation record of analyze_investment
    ncalls,    \* number of analyses started so far
    req        \* the HTTP request being served by a route of underwriting.py

vars == <<prec, inputs, frame, ncalls, req>>

----------------------------------------------------------------------------
(* Rational arithmetic *)

Abs(x) == IF x < 0 THEN -x ELSE x

RECURSIVE GCD(_, _)
GCD(a, b) == IF b = 0 THEN a ELSE GCD(b, a % b)

Norm(n, d) ==
    LET g == GCD(Abs(n), Abs(d))
        s == IF d < 0 THEN -1 ELSE 1
    IN  <<(s * n) \div g, (s * d) \div g>>

R(n) == <<n, 1>>
Q(n, d) == Norm(n, d)

Inf == <<1, 0>>
None == <<0, 0>>
\* a float whose value is not computed here (see MaxPayments); whatever is
\* computed from it is Top as well
Top == <<2, 0>>

IsNum(x) == x[2] > 0

RNeg(x) == <<-x[1], x[2]>>

RAdd(x, y) ==
    LET g == GCD(x[2], y[2])
    IN  Norm(x[1] * (y[2] \div g) + y[1] * (x[2] \div g), (x[2] \div g) * y[2])

RSub(x, y) == RAdd(x, RNeg(y))

RMul(x, y) ==
    LET g1 == GCD(Abs(x[1]), y[2])
        g2 == GCD(Abs(y[1]), x[2])
    IN  IF x[1] = 0 \/ y[1] = 0 THEN <<0, 1>>
        ELSE <<(x[1] \div g1) * (y[1] \div g2), (x[2] \div g2) * (y[2] \div g1)>>

\* y # 0
RDiv(x, y) ==
    IF y[1] > 0 THEN RMul(x, <<y[2], y[1]>>) ELSE RMul(x, <<-y[2], -y[1]>>)

RLt(x, y) ==
    LET g == GCD(x[2], y[2])
    IN  x[1] * (y[2] \div g) < y[1] * (x[2] \div g)

RLe(x, y) == ~RLt(y, x)
RGt(x, y) == RLt(y, x)
RGe(x, y) == ~RLt(x, y)

\* x ** n for an integer n (x # 0 when n < 0)
RECURSIVE RPow(_, _)
RPow(x, n) ==
    IF n = 0 THEN <<1, 1>>
    ELSE IF n < 0 THEN RDiv(<<1, 1>>, RPow(x, -n))
    ELSE RMul(x, RPow(x, n - 1))

\* int() taken as the next integer above
Trunc_Up(x) ==
    IF x[1] % x[2] = 0 THEN x[1] \div x[2] ELSE (x[1] \div x[2]) + 1

\* Python's int(x) on a finite float: truncation toward zero
Trunc(x) ==
    IF x[1] >= 0 THEN x[1] \div x[2] ELSE -((-x[1]) \div x[2])

\* Python's min(a, b) and max(a, b): the first argument unless the second is
\* strictly smaller (larger)
\* a min that yields its second argument whatever the first is
PyMin_Second(a, b) == b
PyMin(a, b) == IF RLt(b, a) THEN b ELSE a
PyMax(a, b) == IF RGt(b, a) THEN b ELSE a

----------------------------------------------------------------------------
(* Float rounding *)

RECURSIVE Pow2(_)
Pow2(k) == IF k = 0 THEN 1 ELSE 2 * Pow2(k - 1)

\* n/d > 0 rounded to p significant bits, ties to even
RECURSIVE RoundPos(_, _, _)
RoundPos(n, d, p) ==
    IF n >= Pow2(p) * d THEN RMul(<<2, 1>>, RoundPos(n, 2 * d, p))
    ELSE IF n < Pow2(p - 1) * d THEN RMul(<<1, 2>>, RoundPos(2 * n, d, p))
    ELSE LET q == n \div d
             r == n % d
         IN  IF 2 * r > d \/ (2 * r = d /\ q % 2 = 1) THEN <<q + 1, 1>> ELSE <<q, 1>>

RoundP(x, p) ==
    IF x[1] = 0 THEN x
    ELSE IF x[1] > 0 THEN RoundPos(x[1], x[2], p)
    ELSE RNeg(RoundPos(-x[1], x[2], p))

\* the float nearest to the real x
Fl(x) == IF prec = 0 THEN x ELSE RoundP(x, prec)

FAdd(x, y) == IF x = Top \/ y = Top THEN Top ELSE Fl(RAdd(x, y))
FSub(x, y) == IF x = Top \/ y = Top THEN Top ELSE Fl(RSub(x, y))
FMul(x, y) == IF x = Top \/ y = Top THEN Top ELSE Fl(RMul(x, y))
FDiv(x, y) == IF x = Top \/ y = Top THEN Top ELSE Fl(RDiv(x, y))

\* Bounds of the exact power (1 + r) ** n: it is computed when there are at
\* most MaxPayments payments and the numerator of 1 + r is at most MaxBase;
\* otherwise the power, and the payment computed from it, is Top.
MaxPayments == 12
MaxBase == 2

FPow(x, n) ==
    IF x = <<1, 1>> THEN x
    ELSE IF Abs(n) <= MaxPayments /\ Abs(x[1]) <= MaxBase /\ x[2] <= MaxBase
    THEN Fl(RPow(x, n)) ELSE Top

----------------------------------------------------------------------------
(* FinancialInputs *)

FieldNames ==
    {"purchase_price", "down_payment_percent", "loan_interest_rate",
     "loan_term_years", "closing_costs", "renovation_costs", "furniture_costs",
     "property_tax_monthly", "insurance_monthly", "hoa_fees_monthly",
     "utilities_monthly", "internet_monthly", "maintenance_monthly",
     "property_management_percent", "average_stay_length", "vacancy_rate",
     "annual_expense_growth", "annual_revenue_growth"}

\* FinancialInputs(): the dataclass defaults; loan_term_years is an int, the
\* other defaults are float literals
FinancialInputs ==
    [purchase_price |-> Fl(R(0)),
     down_payment_percent |-> Fl(R(20)),
     loan_interest_rate |-> Fl(Q(13, 2)),
     loan_term_years |-> R(30),
     closing_costs |-> Fl(R(0)),
     renovation_costs |-> Fl(R(0)),
     furniture_costs |-> Fl(R(15000)),
     property_tax_monthly |-> Fl(R(0)),
     insurance_monthly |-> Fl(R(200)),
     hoa_fees_monthly |-> Fl(R(0)),
     utilities_monthly |-> Fl(R(150)),
     internet_monthly |-> Fl(R(50)),
     maintenance_monthly |-> Fl(R(200)),
     property_management_percent |-> Fl(R(10)),
     average_stay_length |-> Fl(R(3)),
     vacancy_rate |-> Fl(Q(15, 100)),
     annual_expense_growth |-> Fl(Q(3, 100)),
     annual_revenue_growth |-> Fl(Q(2, 100))]

\* type(getattr(self.inputs, key)): loan_term_years is the one int field
FieldType(key) == IF key = "loan_term_years" THEN "int" ELSE "float"

----------------------------------------------------------------------------
(* Override values and their coercion *)

\* An override value as the JSON layer hands it over: a number (kind "num",
\* possibly Inf), a string (kind "str") or null (kind "none").
Num(x) == [kind |-> "num", num |-> x, text |-> ""]
Str(s) == [kind |-> "str", num |-> None, text |-> s]
Null == [kind |-> "none", num |-> None, text |-> ""]
\* the empty mapping {} as an override value
EmptyDict == [kind |-> "dict", num |-> None, text |-> ""]

\* float(s) on the strings of the model; None when float(s) raises ValueError
ParseFloat(s) ==
    CASE s = "10" -> R(10)
      [] s = "1.5" -> Q(3, 2)
      [] s = "0" -> R(0)
      [] OTHER -> None

\* int(s): a decimal point is not accepted
ParseInt(s) ==
    CASE s = "10" -> R(10)
      [] s = "0" -> R(0)
      [] OTHER -> None

\* field_type(value): [exc |-> "" and the value, or the exception raised]
Coerce(ftype, v) ==
    IF v.kind \in {"none", "dict"} THEN [exc |-> "TypeError", val |-> None]
    ELSE IF v.kind = "str" THEN
        LET p == IF ftype = "int" THEN ParseInt(v.text) ELSE ParseFloat(v.text)
        IN  IF p = None THEN [exc |-> "ValueError", val |-> None]
            ELSE [exc |-> "", val |-> IF ftype = "int" THEN p ELSE Fl(p)]
    ELSE IF ftype = "int" THEN
        IF v.num = Inf THEN [exc |-> "OverflowError", val |-> None]
        ELSE [exc |-> "", val |-> R(Trunc(v.num))]
    ELSE [exc |-> "", val |-> IF v.num = Inf THEN Inf ELSE Fl(v.num)]

\* the except clause of _update_inputs
Caught(exc) == exc \in {"TypeError", "ValueError"}

\* Arguments that do not have the shape of their parameter. A record is
\* encoded as a function on its keys, so a value that is no mapping is encoded
\* as a function on one reserved key: None and a non-empty list in the place
\* of a subject, None in the place of the list of comparables.
NoneSubject == ("<None>" :> None)
ListSubject == ("<list>" :> None)
NoneComps == <<("<not a list>" :> None)>>
\* a non-empty list in the place of the override mapping
ListCustom == <<[key |-> "<not a mapping>", value |-> [kind |-> "none", num |-> None, text |-> ""]]>>

IsMapping(subject) == subject \notin {NoneSubject, ListSubject}

\* hasattr(self.inputs, key) holds for the fields and for the attributes every
\* instance has; of those, __dict__ is the one whose assignment changes fields:
\* dict(value) of a mapping succeeds and replaces the instance's attributes, so
\* that every field reads as its class-level default again. dict(value) of a
\* number, of None or of a non-empty string raises TypeError or ValueError.
DictReplaced(inp, value) == IF value.kind = "dict" THEN FinancialInputs ELSE inp

\* _update_inputs: the overrides are applied in the mapping's order; an
\* exception that the except clause does not name leaves the loop with the
\* earlier overrides applied.
RECURSIVE UpdateFrom(_, _, _)
UpdateFrom(inp, custom, i) ==
    IF i > Len(custom) THEN [inputs |-> inp, exc |-> ""]
    ELSE LET key == custom[i].key
             c == Coerce(FieldType(key), custom[i].value)
         IN  IF key = "__dict__" THEN
                 UpdateFrom(DictReplaced(inp, custom[i].value), custom, i + 1)
             ELSE IF key \notin FieldNames THEN UpdateFrom(inp, custom, i + 1)
             ELSE IF c.exc = "" THEN
                 UpdateFrom([inp EXCEPT ![key] = c.val], custom, i + 1)
             ELSE IF Caught(c.exc) THEN UpdateFrom(inp, custom, i + 1)
             ELSE [inputs |-> inp, exc |-> c.exc]

\* line 191: custom_inputs_dict.items() raises AttributeError on a value that
\* has no such method, before the loop is entered
_update_inputs(inp, custom) ==
    IF custom = ListCustom THEN [inputs |-> inp, exc |-> "AttributeError"]
    ELSE UpdateFrom(inp, custom, 1)

----------------------------------------------------------------------------
(* Property records: a function from the keys present to their values *)

\* a lookup that yields None for an absent key whatever the default is
Get_NoDefault(rec, key, default) == IF key \in DOMAIN rec THEN rec[key] ELSE None

\* dict.get(key, default)
Get(rec, key, default) == IF key \in DOMAIN rec THEN rec[key] ELSE default

\* the sanity capping of another revision of the heuristic: 100k to 2M
Capped_Narrow(estimated_value) ==
    PyMax(Fl(R(100000)), PyMin(estimated_value, Fl(R(2000000))))

\* line 238: max(50000.0, min(estimated_value, 5000000.0))
Capped(estimated_value) ==
    PyMax(Fl(R(50000)), PyMin(estimated_value, Fl(R(5000000))))

\* _estimate_property_value: None when the value cannot be estimated
_estimate_property_value(subject) ==
    LET price_per_night == Get(subject, "price_per_night", None)
        num_bedrooms == Get(subject, "num_bedrooms", None)
        num_bathrooms == Get(subject, "num_bathrooms", None)
    IN  IF DOMAIN subject = {} \/ subject = NoneSubject THEN None
        ELSE IF price_per_night = None \/ num_bedrooms = None \/ num_bathrooms = None
        THEN None
        ELSE LET base_value == FMul(FMul(price_per_night, R(365)), R(15))
                 bedroom_multiplier == FAdd(R(1), FMul(num_bedrooms, Fl(Q(2, 10))))
                 bathroom_multiplier == FAdd(R(1), FMul(num_bathrooms, Fl(Q(1, 10))))
                 estimated_value == FMul(FMul(base_value, bedroom_multiplier), bathroom_multiplier)
             IN  Capped(estimated_value)

\* line 219: subject_property.get raises AttributeError on a value that is
\* truthy (so that line 216 lets it pass) and has no such method
EstimateRaises(inp, subject) == inp.purchase_price = R(0) /\ subject = ListSubject

\* a resolution that takes the estimate whatever price the caller supplied
ResolvePrice_Always(inp, subject) ==
    LET estimated_value == _estimate_property_value(subject)
    IN  [inp EXCEPT !.purchase_price =
            IF estimated_value # None THEN estimated_value ELSE Fl(R(250000))]

\* lines 137-139 of analyze_investment: the purchase price in effect
ResolvePrice(inp, subject) ==
    IF inp.purchase_price = R(0) THEN
        LET estimated_value == _estimate_property_value(subject)
        IN  [inp EXCEPT !.purchase_price =
                IF estimated_value # None THEN estimated_value ELSE Fl(R(250000))]
    ELSE inp

----------------------------------------------------------------------------
(* Loan metrics *)

\* the payment without the growth factor in the numerator
Amortized_Flat(loan_amount, monthly_interest_rate, growth) ==
    FDiv(FMul(loan_amount, monthly_interest_rate), FSub(growth, R(1)))

\* lines 262-263, growth being (1 + monthly_interest_rate) ** num_payments
Amortized(loan_amount, monthly_interest_rate, growth) ==
    FDiv(FMul(loan_amount, FMul(monthly_interest_rate, growth)), FSub(growth, R(1)))

\* _calculate_loan_metrics: exc is the exception the arithmetic raises, if any
_calculate_loan_metrics(inp) ==
    LET down_payment == FMul(inp.purchase_price, FDiv(inp.down_payment_percent, R(100)))
        loan_amount == FSub(inp.purchase_price, down_payment)
        monthly_interest_rate == FDiv(FDiv(inp.loan_interest_rate, R(100)), R(12))
        num_payments == Trunc(inp.loan_term_years) * 12
        growth == FPow(FAdd(R(1), monthly_interest_rate), num_payments)
        denominator == FSub(growth, R(1))
        zero_division == num_payments # 0 /\ RGt(monthly_interest_rate, R(0))
                            /\ growth # Top /\ denominator = R(0)
        monthly_payment ==
            IF num_payments = 0 THEN loan_amount
            ELSE IF RGt(monthly_interest_rate, R(0)) THEN
                IF zero_division THEN None
                ELSE IF growth = Top THEN Top
                ELSE Amortized(loan_amount, monthly_interest_rate, growth)
            ELSE IF num_payments > 0 THEN FDiv(loan_amount, R(num_payments))
            ELSE loan_amount
        total_investment ==
            FAdd(FAdd(FAdd(down_payment, inp.closing_costs), inp.renovation_costs),
                 inp.furniture_costs)
    IN  [exc |-> IF zero_division THEN "ZeroDivisionError" ELSE "",
         down_payment |-> down_payment,
         loan_amount |-> loan_amount,
         monthly_payment |-> monthly_payment,
         total_investment |-> total_investment]

----------------------------------------------------------------------------
(* Revenue scenarios *)

ScenarioKeys == <<"best_case", "average_case", "worst_case">>

\* rate factors under which the best case discounts the market rate
adr_factor_Discount(key) ==
    CASE key = "best_case" -> Q(90, 100)
      [] key = "average_case" -> R(1)
      [] key = "worst_case" -> Q(85, 100)

\* scenarios_params
adr_factor(key) ==
    CASE key = "best_case" -> Q(110, 100)
      [] key = "average_case" -> R(1)
      [] key = "worst_case" -> Q(85, 100)

\* occupancy factors with those of the best and the worst case exchanged
occ_factor_Exchanged(key) ==
    CASE key = "best_case" -> Q(70, 100)
      [] key = "average_case" -> R(1)
      [] key = "worst_case" -> Q(120, 100)

occ_factor(key) ==
    CASE key = "best_case" -> Q(120, 100)
      [] key = "average_case" -> R(1)
      [] key = "worst_case" -> Q(70, 100)

scenario_name(key) ==
    CASE key = "best_case" -> "Best Case"
      [] key = "average_case" -> "Average Case"
      [] key = "worst_case" -> "Worst Case"

RECURSIVE SumSeq(_, _)
SumSeq(s, i) == IF i > Len(s) THEN R(0) ELSE RAdd(s[i], SumSeq(s, i + 1))

\* statistics.mean: the exact mean, rounded once
Mean(s) == Fl(RDiv(SumSeq(s, 1), R(Len(s))))

HasNone(s) == \E i \in 1..Len(s) : s[i] = None

\* an occupancy that takes a comparable without reviews as fully vacant
CompOccupancy_Vacant(comp, inp) ==
    LET num_reviews == Get(comp, "num_reviews", R(0))
        availability_365 == Get(comp, "availability_365", R(300))
    IN  IF RGt(num_reviews, R(0)) /\ RGt(availability_365, R(0)) THEN
            PyMin(Fl(Q(95, 100)),
                  FDiv(FMul(RMul(num_reviews, R(4)), inp.average_stay_length),
                       availability_365))
        ELSE R(0)

\* the occupancy the loop body derives for one comparable (None: the
\* comparison with None raises TypeError)
CompOccupancy(comp, inp) ==
    LET num_reviews == Get(comp, "num_reviews", R(0))
        availability_365 == Get(comp, "availability_365", R(300))
    IN  IF num_reviews = None THEN None
        ELSE IF RGt(num_reviews, R(0)) /\ availability_365 = None THEN None
        ELSE IF RGt(num_reviews, R(0)) /\ RGt(availability_365, R(0)) THEN
            LET estimated_stays_per_year == RMul(num_reviews, R(4))
                estimated_nights_per_year ==
                    FMul(estimated_stays_per_year, inp.average_stay_length)
            IN  PyMin(Fl(Q(95, 100)), FDiv(estimated_nights_per_year, availability_365))
        ELSE Fl(Q(50, 100))

\* the market occupancy with the per-comparable default as the fallback
MarketOccupancy_Half(comp_occupancies) ==
    IF Len(comp_occupancies) > 0 THEN Mean(comp_occupancies) ELSE Fl(Q(50, 100))

\* line 316
MarketOccupancy(comp_occupancies) ==
    IF Len(comp_occupancies) > 0 THEN Mean(comp_occupancies) ELSE Fl(Q(65, 100))

\* the market averages of lines 289-317
MarketAverages(subject, comps, inp) ==
    LET subject_adr == Get(subject, "price_per_night", R(100))
        subject_cleaning_fee == Get(subject, "cleaning_fee", R(0))
        comp_adrs == [i \in 1..Len(comps) |-> Get(comps[i], "price_per_night", subject_adr)]
        comp_cleaning_fees ==
            [i \in 1..Len(comps) |-> Get(comps[i], "cleaning_fee", subject_cleaning_fee)]
        comp_occupancies == [i \in 1..Len(comps) |-> CompOccupancy(comps[i], inp)]
        bad == HasNone(comp_adrs) \/ HasNone(comp_cleaning_fees) \/ HasNone(comp_occupancies)
                 \/ subject_adr = None
                 \/ (Len(comps) = 0 /\ subject_cleaning_fee = None)
    IN  IF ~IsMapping(subject) THEN
            \* line 289: subject_property.get
            [exc |-> "AttributeError", subject_adr |-> None,
             adr |-> None, occupancy |-> None, cleaning_fee |-> None]
        ELSE IF comps = NoneComps THEN
            \* line 296: for comp in comparable_properties
            [exc |-> "TypeError", subject_adr |-> subject_adr,
             adr |-> None, occupancy |-> None, cleaning_fee |-> None]
        ELSE IF bad THEN [exc |-> "TypeError", subject_adr |-> subject_adr,
                     adr |-> None, occupancy |-> None, cleaning_fee |-> None]
        ELSE [exc |-> "",
              subject_adr |-> subject_adr,
              adr |-> IF Len(comps) > 0 THEN Mean(comp_adrs) ELSE subject_adr,
              occupancy |-> MarketOccupancy(comp_occupancies),
              cleaning_fee |-> IF Len(comps) > 0 THEN Mean(comp_cleaning_fees)
                               ELSE subject_cleaning_fee]

\* a base rate that is the market's in every scenario
current_adr_base_Market(key, m) == m.adr

\* line 343: the rate a scenario starts from
current_adr_base(key, m) == IF key = "worst_case" THEN m.subject_adr ELSE m.adr

\* a vacancy factor that is applied to every scenario
VacancyFactor_All(key, vacancy_rate) == FSub(R(1), vacancy_rate)

\* line 349: (1.0 - self.inputs.vacancy_rate if scenario_key != 'best_case' else 1.0)
VacancyFactor(key, vacancy_rate) ==
    IF key # "best_case" THEN FSub(R(1), vacancy_rate) ELSE R(1)

\* the body of the loop over scenarios_params (lines 341-368)
Scenario(key, m, inp) ==
    LET scenario_adr == FMul(current_adr_base(key, m), Fl(adr_factor(key)))
        base_scenario_occupancy == FMul(m.occupancy, Fl(occ_factor(key)))
        capped == PyMin(Fl(Q(95, 100)),
                        FMul(base_scenario_occupancy, VacancyFactor(key, inp.vacancy_rate)))
        effective_occupancy == PyMax(Fl(Q(10, 100)), capped)
        total_nights_booked == Trunc(FMul(R(365), effective_occupancy))
        stays_per_year ==
            IF RGt(inp.average_stay_length, R(0))
            THEN FDiv(R(total_nights_booked), inp.average_stay_length)
            ELSE R(0)
        room_revenue == FMul(R(total_nights_booked), scenario_adr)
        cleaning_revenue_total == FMul(stays_per_year, m.cleaning_fee)
        annual_gross_revenue == FAdd(room_revenue, cleaning_revenue_total)
    IN  [scenario_name |-> scenario_name(key),
         annual_revenue |-> annual_gross_revenue,
         monthly_revenue |-> FDiv(annual_gross_revenue, R(12)),
         occupancy_rate |-> effective_occupancy,
         adr |-> scenario_adr,
         cleaning_revenue |-> cleaning_revenue_total,
         total_nights_booked |-> R(total_nights_booked)]

NoScenario ==
    [scenario_name |-> "", annual_revenue |-> None, monthly_revenue |-> None,
     occupancy_rate |-> None, adr |-> None, cleaning_revenue |-> None,
     total_nights_booked |-> None]

\* _analyze_revenue_scenarios
_analyze_revenue_scenarios(subject, comps, inp) ==
    LET m == MarketAverages(subject, comps, inp)
    IN  IF m.exc # "" THEN
            [exc |-> m.exc, best_case |-> NoScenario, average_case |-> NoScenario,
             worst_case |-> NoScenario]
        ELSE [exc |-> "",
              best_case |-> Scenario("best_case", m, inp),
              average_case |-> Scenario("average_case", m, inp),
              worst_case |-> Scenario("worst_case", m, inp)]

----------------------------------------------------------------------------
(* Expenses, cash flows and return metrics *)

\* a tax estimate that replaces the configured tax whenever the price is known
EstimateTax_Always(inp) ==
    IF RGt(inp.purchase_price, R(0))
    THEN [inp EXCEPT !.property_tax_monthly =
             FDiv(FMul(inp.purchase_price, Fl(Q(12, 1000))), R(12))]
    ELSE inp

\* lines 384-385: the lazy property tax estimate written back to self.inputs
EstimateTax(inp) ==
    IF inp.property_tax_monthly = R(0) /\ RGt(inp.purchase_price, R(0))
    THEN [inp EXCEPT !.property_tax_monthly =
             FDiv(FMul(inp.purchase_price, Fl(Q(12, 1000))), R(12))]
    ELSE inp

\* _calculate_monthly_operating_expenses, on the inputs EstimateTax leaves
\* the fixed monthly expenses alone, without the management fee
_calculate_monthly_operating_expenses_Fixed(inp, average_revenue_scenario) ==
    FAdd(FAdd(FAdd(FAdd(FAdd(inp.property_tax_monthly, inp.insurance_monthly),
                        inp.hoa_fees_monthly),
                   inp.utilities_monthly),
              inp.internet_monthly),
         inp.maintenance_monthly)

_calculate_monthly_operating_expenses(inp, average_revenue_scenario) ==
    LET property_management_fee ==
            FMul(average_revenue_scenario.monthly_revenue,
                 FDiv(inp.property_management_percent, R(100)))
        total_fixed_monthly_expenses ==
            FAdd(FAdd(FAdd(FAdd(FAdd(inp.property_tax_monthly, inp.insurance_monthly),
                                inp.hoa_fees_monthly),
                           inp.utilities_monthly),
                      inp.internet_monthly),
                 inp.maintenance_monthly)
    IN  FAdd(total_fixed_monthly_expenses, property_management_fee)

\* the loop body of _calculate_cash_flows for one scenario
CashFlow(scenario_data, monthly_operating_expenses, monthly_mortgage_payment) ==
    LET monthly_net_cash_flow ==
            FSub(FSub(scenario_data.monthly_revenue, monthly_operating_expenses),
                 monthly_mortgage_payment)
    IN  [monthly |-> monthly_net_cash_flow,
         annual |-> FMul(monthly_net_cash_flow, R(12))]

_calculate_cash_flows(revenue_scenarios, monthly_operating_expenses, monthly_mortgage_payment) ==
    [best_case |-> CashFlow(revenue_scenarios.best_case, monthly_operating_expenses,
                            monthly_mortgage_payment),
     average_case |-> CashFlow(revenue_scenarios.average_case, monthly_operating_expenses,
                               monthly_mortgage_payment),
     worst_case |-> CashFlow(revenue_scenarios.worst_case, monthly_operating_expenses,
                             monthly_mortgage_payment)]

\* the return metrics with the payback computed for every non-zero cash flow
Roi_Unsigned(annual_cash_flow, total_investment) ==
    [roi |-> IF RGt(total_investment, R(0))
             THEN FMul(FDiv(annual_cash_flow, total_investment), R(100))
             ELSE R(0),
     payback |-> IF annual_cash_flow = Top THEN Top
                 ELSE IF annual_cash_flow # R(0)
                 THEN FDiv(total_investment, annual_cash_flow)
                 ELSE Inf]

\* the loop body of _calculate_roi_metrics for one scenario
Roi(annual_cash_flow, total_investment) ==
    [roi |-> IF RGt(total_investment, R(0))
             THEN FMul(FDiv(annual_cash_flow, total_investment), R(100))
             ELSE R(0),
     payback |-> IF annual_cash_flow = Top THEN Top
                 ELSE IF RGt(annual_cash_flow, R(0))
                 THEN FDiv(total_investment, annual_cash_flow)
                 ELSE Inf]

_calculate_roi_metrics(cash_flows, total_investment) ==
    [best_case |-> Roi(cash_flows.best_case.annual, total_investment),
     average_case |-> Roi(cash_flows.average_case.annual, total_investment),
     worst_case |-> Roi(cash_flows.worst_case.annual, total_investment)]

_calculate_additional_metrics(inp, average_revenue_scenario, annual_operating_expenses, loan_metrics) ==
    LET net_operating_income ==
            FSub(average_revenue_scenario.annual_revenue, annual_operating_expenses)
        cap_rate ==
            IF RGt(inp.purchase_price, R(0))
            THEN FMul(FDiv(net_operating_income, inp.purchase_price), R(100))
            ELSE R(0)
        annual_debt_service == FMul(loan_metrics.monthly_payment, R(12))
        annual_pre_tax_cash_flow == FSub(net_operating_income, annual_debt_service)
        total_cash_invested == loan_metrics.total_investment
        cash_on_cash_return ==
            IF RGt(total_cash_invested, R(0))
            THEN FMul(FDiv(annual_pre_tax_cash_flow, total_cash_invested), R(100))
            ELSE R(0)
        dscr ==
            IF annual_debt_service = Top THEN Top
            ELSE IF RGt(annual_debt_service, R(0))
            THEN FDiv(net_operating_income, annual_debt_service)
            ELSE IF RGt(net_operating_income, R(0)) THEN Inf ELSE R(0)
    IN  [cap_rate |-> cap_rate,
         cash_on_cash_return |-> cash_on_cash_return,
         dscr |-> dscr]

\* a snapshot of the declared defaults rather than of the instance
_compile_assumptions_Declared(inp) == FinancialInputs

\* _compile_assumptions: asdict(self.inputs)
_compile_assumptions(inp) == inp

----------------------------------------------------------------------------
(* analyze_investment as a process: one frame per activation, one step per   *)
(* call the method makes                                                    *)

NoLoan ==
    [exc |-> "", down_payment |-> None, loan_amount |-> None,
     monthly_payment |-> None, total_investment |-> None]
NoScenarios ==
    [exc |-> "", best_case |-> NoScenario, average_case |-> NoScenario,
     worst_case |-> NoScenario]
NoFlow == [monthly |-> None, annual |-> None]
NoFlows == [best_case |-> NoFlow, average_case |-> NoFlow, worst_case |-> NoFlow]
NoRoi == [roi |-> None, payback |-> None]
NoRois == [best_case |-> NoRoi, average_case |-> NoRoi, worst_case |-> NoRoi]
NoMetrics == [cap_rate |-> None, cash_on_cash_return |-> None, dscr |-> None]

NoArgs == [subject |-> <<>>, comps |-> <<>>, custom |-> <<>>]

\* a frame that is not running
Idle ==
    [pc |-> "idle", eng |-> 0, args |-> NoArgs, exc |-> "", at |-> "",
     loan_metrics |-> NoLoan, revenue_scenarios |-> NoScenarios,
     monthly_op_expenses |-> None, cash_flows |-> NoFlows, roi_metrics |-> NoRois,
     additional_metrics |-> NoMetrics, assumptions |-> <<>>]

\* an underwriter kept from the previous call
KeptInstance(previous) == previous

\* AirbnbUnderwriter.__init__ as calculate_underwriting calls it: the instance
\* holds the FinancialInputs() that line 519 has just built
NewInstance(previous) == FinancialInputs

\* calculate_underwriting, lines 519-529: a new FinancialInputs and a new
\* AirbnbUnderwriter, then analyze_investment on it
Construct(f, e, a) ==
    /\ frame[f].pc = "idle"
    /\ inputs' = [inputs EXCEPT ![e] = NewInstance(inputs[e])]
    /\ frame' = [frame EXCEPT ![f] = [Idle EXCEPT !.pc = "update", !.eng = e, !.args = a]]
    /\ ncalls' = ncalls + 1
    /\ UNCHANGED prec

\* calculate_underwriting called directly
Call(f, e, a) == Construct(f, e, a) /\ UNCHANGED req

\* analyze_investment called on an AirbnbUnderwriter that already exists
Invoke(f, e, a) ==
    /\ frame[f].pc = "idle"
    /\ frame' = [frame EXCEPT ![f] = [Idle EXCEPT !.pc = "update", !.eng = e, !.args = a]]
    /\ ncalls' = ncalls + 1
    /\ UNCHANGED <<prec, inputs, req>>

\* the exception leaves analyze_investment; at is the step that raised it
Raise(f, exc) ==
    [frame EXCEPT ![f].pc = "raised", ![f].exc = exc, ![f].at = frame[f].pc]

\* lines 134-135
UpdateInputs(f) ==
    /\ frame[f].pc = "update"
    /\ LET e == frame[f].eng
           u == _update_inputs(inputs[e], frame[f].args.custom)
       IN  /\ inputs' = [inputs EXCEPT ![e] = u.inputs]
           /\ frame' = IF u.exc # "" THEN Raise(f, u.exc)
                       ELSE [frame EXCEPT ![f].pc = "estimate"]
    /\ UNCHANGED <<prec, ncalls, req>>

\* lines 137-140
EstimatePrice(f) ==
    /\ frame[f].pc = "estimate"
    /\ LET e == frame[f].eng
       IN  IF EstimateRaises(inputs[e], frame[f].args.subject) THEN
               /\ frame' = Raise(f, "AttributeError")
               /\ UNCHANGED inputs
           ELSE
               /\ inputs' = [inputs EXCEPT ![e] = ResolvePrice(inputs[e], frame[f].args.subject)]
               /\ frame' = [frame EXCEPT ![f].pc = "loan"]
    /\ UNCHANGED <<prec, ncalls, req>>

\* line 142
LoanMetrics(f) ==
    /\ frame[f].pc = "loan"
    /\ LET m == _calculate_loan_metrics(inputs[frame[f].eng])
       IN  frame' = IF m.exc # "" THEN Raise(f, m.exc)
                    ELSE [frame EXCEPT ![f].pc = "revenue", ![f].loan_metrics = m]
    /\ UNCHANGED <<prec, inputs, ncalls, req>>

\* line 143
RevenueScenarios(f) ==
    /\ frame[f].pc = "revenue"
    /\ LET r == _analyze_revenue_scenarios(frame[f].args.subject, frame[f].args.comps,
                                           inputs[frame[f].eng])
       IN  frame' = IF r.exc # "" THEN Raise(f, r.exc)
                    ELSE [frame EXCEPT ![f].pc = "expenses", ![f].revenue_scenarios = r]
    /\ UNCHANGED <<prec, inputs, ncalls, req>>

\* lines 144-145
OperatingExpenses(f) ==
    /\ frame[f].pc = "expenses"
    /\ LET e == frame[f].eng
           inp == EstimateTax(inputs[e])
       IN  /\ inputs' = [inputs EXCEPT ![e] = inp]
           /\ frame' = [frame EXCEPT
                  ![f].pc = "cash_flows",
                  ![f].monthly_op_expenses =
                      _calculate_monthly_operating_expenses(
                          inp, frame[f].revenue_scenarios.average_case)]
    /\ UNCHANGED <<prec, ncalls, req>>

annual_op_expenses(fr) == FMul(fr.monthly_op_expenses, R(12))

\* line 146
CashFlows(f) ==
    /\ frame[f].pc = "cash_flows"
    /\ frame' = [frame EXCEPT
           ![f].pc = "roi",
           ![f].cash_flows =
               _calculate_cash_flows(frame[f].revenue_scenarios,
                                     frame[f].monthly_op_expenses,
                                     frame[f].loan_metrics.monthly_payment)]
    /\ UNCHANGED <<prec, inputs, ncalls, req>>

\* line 147
RoiMetrics(f) ==
    /\ frame[f].pc = "roi"
    /\ frame' = [frame EXCEPT
           ![f].pc = "additional",
           ![f].roi_metrics =
               _calculate_roi_metrics(frame[f].cash_flows,
                                      frame[f].loan_metrics.total_investment)]
    /\ UNCHANGED <<prec, inputs, ncalls, req>>

\* lines 148-152
AdditionalMetrics(f) ==
    /\ frame[f].pc = "additional"
    /\ frame' = [frame EXCEPT
           ![f].pc = "assumptions",
           ![f].additional_metrics =
               _calculate_additional_metrics(inputs[frame[f].eng],
                                             frame[f].revenue_scenarios.average_case,
                                             annual_op_expenses(frame[f]),
                                             frame[f].loan_metrics)]
    /\ UNCHANGED <<prec, inputs, ncalls, req>>

\* lines 154-182: the snapshot of the inputs, and the FinancialResults returned
CompileAssumptions(f) ==
    /\ frame[f].pc = "assumptions"
    /\ frame' = [frame EXCEPT
           ![f].pc = "done",
           ![f].assumptions = _compile_assumptions(inputs[frame[f].eng])]
    /\ UNCHANGED <<prec, inputs, ncalls, req>>

\* one step of the activation in frame f
Step(f) ==
    \/ UpdateInputs(f)
    \/ EstimatePrice(f)
    \/ LoanMetrics(f)
    \/ RevenueScenarios(f)
    \/ OperatingExpenses(f)
    \/ CashFlows(f)
    \/ RoiMetrics(f)
    \/ AdditionalMetrics(f)
    \/ CompileAssumptions(f)

\* the caller has taken the result (or the exception); the frame is gone
Leave(f) ==
    /\ frame[f].pc \in {"done", "raised"}
    /\ frame' = [frame EXCEPT ![f] = Idle]
    /\ UNCHANGED <<prec, inputs, ncalls>>

Return(f) == Leave(f) /\ UNCHANGED req

\* the dictionary calculate_underwriting returns (lines 533-577), built from
\* the frame of the analysis that has finished
Result(fr) ==
    [investment_summary |->
         [total_investment |-> fr.loan_metrics.total_investment,
          down_payment |-> fr.loan_metrics.down_payment,
          loan_amount |-> fr.loan_metrics.loan_amount,
          monthly_mortgage_payment |-> fr.loan_metrics.monthly_payment],
     revenue_scenarios |->
         [best_case |-> fr.revenue_scenarios.best_case,
          average_case |-> fr.revenue_scenarios.average_case,
          worst_case |-> fr.revenue_scenarios.worst_case],
     expenses |->
         [monthly_operating_expenses |-> fr.monthly_op_expenses,
          annual_operating_expenses |-> annual_op_expenses(fr)],
     cash_flow_analysis |->
         [best_case |-> [monthly_cash_flow |-> fr.cash_flows.best_case.monthly,
                         annual_cash_flow |-> fr.cash_flows.best_case.annual],
          average_case |-> [monthly_cash_flow |-> fr.cash_flows.average_case.monthly,
                            annual_cash_flow |-> fr.cash_flows.average_case.annual],
          worst_case |-> [monthly_cash_flow |-> fr.cash_flows.worst_case.monthly,
                          annual_cash_flow |-> fr.cash_flows.worst_case.annual]],
     roi_analysis |->
         [best_case_roi_percent |-> fr.roi_metrics.best_case.roi,
          average_case_roi_percent |-> fr.roi_metrics.average_case.roi,
          worst_case_roi_percent |-> fr.roi_metrics.worst_case.roi,
          best_case_payback_years |-> fr.roi_metrics.best_case.payback,
          average_case_payback_years |-> fr.roi_metrics.average_case.payback,
          worst_case_payback_years |-> fr.roi_metrics.worst_case.payback],
     additional_metrics |->
         [cap_rate_percent |-> fr.additional_metrics.cap_rate,
          cash_on_cash_return_percent |-> fr.additional_metrics.cash_on_cash_return,
          debt_service_coverage_ratio |-> fr.additional_metrics.dscr],
     assumptions |-> fr.assumptions]

----------------------------------------------------------------------------
(* The inputs the analyses are run on *)

KV(k, v) == [key |-> k, value |-> Num(v)]
KS(k, t) == [key |-> k, value |-> Str(t)]
KN(k) == [key |-> k, value |-> Null]
KD(k) == [key |-> k, value |-> EmptyDict]

EmptyRecord == [k \in {} |-> None]

\* SAMPLE_SUBJECT_PROPERTY of the tests
SubjectFull ==
    ("price_per_night" :> R(150)) @@ ("num_bedrooms" :> R(2)) @@
    ("num_bathrooms" :> Q(3, 2)) @@ ("cleaning_fee" :> R(60))
\* a subject without a bathroom count
SubjectNoBath ==
    ("price_per_night" :> R(100)) @@ ("num_bedrooms" :> R(3)) @@ ("cleaning_fee" :> R(50))
\* subjects whose estimate falls below and above the clamp
SubjectCheap ==
    ("price_per_night" :> R(1)) @@ ("num_bedrooms" :> R(0)) @@ ("num_bathrooms" :> R(0))
SubjectGrand ==
    ("price_per_night" :> R(1000)) @@ ("num_bedrooms" :> R(5)) @@
    ("num_bathrooms" :> R(4)) @@ ("cleaning_fee" :> R(100))

Subjects == {SubjectFull, EmptyRecord, SubjectNoBath, SubjectCheap, SubjectGrand}

\* SAMPLE_COMPARABLE_PROPERTIES of the tests, and two sparse comparables
CompA ==
    ("price_per_night" :> R(140)) @@ ("cleaning_fee" :> R(50)) @@
    ("num_reviews" :> R(80)) @@ ("availability_365" :> R(300))
CompB ==
    ("price_per_night" :> R(160)) @@ ("cleaning_fee" :> R(70)) @@
    ("num_reviews" :> R(120)) @@ ("availability_365" :> R(320))
CompSparse == ("price_per_night" :> R(90)) @@ ("num_reviews" :> R(10))
CompBare == ("num_reviews" :> R(0)) @@ ("availability_365" :> R(0))

\* the last list holds one comparable twice
CompLists == {<<>>, <<CompA, CompB>>, <<CompSparse, CompBare>>, <<CompB, CompSparse, CompB>>}

\* an interest-free loan, so that the payment is computed exactly
NoInterest == <<KV("loan_interest_rate", R(0))>>

Customs ==
    { <<>>,
      NoInterest,
      NoInterest \o <<KV("purchase_price", R(300000)), KV("closing_costs", R(5000)),
                      KV("renovation_costs", R(10000))>>,
      \* values that cannot be coerced, among values that can
      <<KS("loan_interest_rate", "0"), KS("purchase_price", "not-a-number"),
        KN("down_payment_percent"), KS("loan_term_years", "1.5"),
        KS("vacancy_rate", "abc"), KS("insurance_monthly", "10")>>,
      <<KV("loan_interest_rate", R(0)), KS("loan_term_years", "10"),
        KV("purchase_price", R(200000)), KN("closing_costs"),
        KV("unknown_parameter", R(1))>>,
      <<KV("loan_interest_rate", R(0)), KV("loan_term_years", Inf),
        KV("purchase_price", R(200000))>>,
      \* zero denominators
      <<KV("loan_interest_rate", R(0)), KV("loan_term_years", R(0)),
        KV("average_stay_length", R(0))>>,
      <<KV("loan_interest_rate", R(0)), KV("down_payment_percent", R(0)),
        KV("furniture_costs", R(0)), KV("purchase_price", R(120000))>>,
      <<KV("loan_interest_rate", R(0)), KV("down_payment_percent", R(100)),
        KV("property_management_percent", R(0))>>,
      <<KV("loan_interest_rate", R(0)), KV("down_payment_percent", R(100)),
        KV("maintenance_monthly", R(100000))>>,
      \* a loan at interest
      <<KV("loan_interest_rate", R(1200)), KV("loan_term_years", R(1)),
        KV("purchase_price", R(81900)), KV("down_payment_percent", R(50))>>,
      <<KV("loan_interest_rate", R(1200)), KV("loan_term_years", R(0)),
        KV("purchase_price", R(81900))>>,
      \* vacancy rates
      NoInterest \o <<KV("vacancy_rate", R(0))>>,
      NoInterest \o <<KV("vacancy_rate", Q(1, 2))>>,
      NoInterest \o <<KV("vacancy_rate", Q(9, 10))>>,
      NoInterest \o <<KV("vacancy_rate", R(1))>>,
      NoInterest \o <<KV("maintenance_monthly", R(5000))>>,
      \* a vacancy rate below zero, and negative amounts of money
      NoInterest \o <<KV("vacancy_rate", Q(-1, 2))>>,
      NoInterest \o <<KV("closing_costs", R(-5000)), KV("hoa_fees_monthly", R(-50))>>,
      NoInterest \o <<KV("purchase_price", R(-100000))>>,
      \* a configured property tax
      NoInterest \o <<KV("property_tax_monthly", R(500))>>,
      \* keys that are not fields
      NoInterest \o <<KV("purchase_price", R(300000)), KV("vacancy_rate", Q(1, 2)),
                      KD("__dict__"), KV("insurance_monthly", R(100))>>,
      NoInterest \o <<KV("purchase_price", R(300000)), KV("__dict__", R(5)),
                      KN("__class__"), KS("price", "10")>> }

Args == [subject : Subjects, comps : CompLists, custom : Customs]

\* the number of analyses started in one behaviour
MaxCalls == 2

\* the number of requests served in one behaviour
MaxRequests == 2

----------------------------------------------------------------------------
(* The /analyze route of underwriting.py *)

\* request.get_json(): json is FALSE for a missing or empty body
NoPayload == [json |-> FALSE, airbnb_url |-> "", financial_inputs |-> <<>>]

Urls ==
    {"", "https://example.com/rooms/1", "airbnb.com/rooms/1",
     "https://www.airbnb.com/rooms/1"}

\* 'airbnb.com' in airbnb_url (line 127)
MentionsAirbnb(url) == url \in {"airbnb.com/rooms/1", "https://www.airbnb.com/rooms/1"}

\* url.startswith("http://") or url.startswith("https://") (scraper.py line 500)
HasScheme(url) == url \in {"https://example.com/rooms/1", "https://www.airbnb.com/rooms/1"}

ApiCustoms ==
    { <<>>, NoInterest, NoInterest \o <<KV("purchase_price", R(300000))>> }

Payloads ==
    {NoPayload} \cup [json : {TRUE}, airbnb_url : Urls, financial_inputs : ApiCustoms]

\* What scrape_airbnb_listing returns: error is the value under the "error"
\* key ("" when the record has no such key), address the value under
\* "address_neighborhood" ("" for None), details the fields the calculator reads.
\* a listing page on which no field was found: every field is None
ScrapedBlank ==
    ("price_per_night" :> None) @@ ("num_bedrooms" :> None) @@
    ("num_bathrooms" :> None) @@ ("cleaning_fee" :> None)

Scrapes(url) ==
    IF ~HasScheme(url)
    THEN {[error |-> "Invalid URL format.", address |-> "", details |-> EmptyRecord]}
    ELSE {[error |-> "Network error fetching URL: timeout", address |-> "",
           details |-> EmptyRecord],
          [error |-> "HTML parsing error: bad markup", address |-> "",
           details |-> EmptyRecord],
          [error |-> "Critical error in scraping process: failure", address |-> "",
           details |-> EmptyRecord],
          [error |-> "", address |-> "Austin, TX", details |-> SubjectFull],
          [error |-> "", address |-> "", details |-> SubjectFull],
          [error |-> "", address |-> "Austin, TX", details |-> ScrapedBlank]}

NoScrape == [error |-> "", address |-> "", details |-> EmptyRecord]

\* a check that knows the one error of scrape_airbnb_listing itself
HasError_UrlOnly(scraped) == scraped.error = "Invalid URL format."

\* subject_property_details.get("error") as a condition (line 144)
HasError(scraped) == scraped.error # ""

extract_city_from_address(address_string) ==
    CASE address_string = "" -> "Unknown"
      [] address_string = "Austin, TX" -> "Austin"

\* find_comparable_listings: it raises, or returns the listings it scraped
\* a comparable scraped from a page that shows the price but neither the
\* cleaning fee nor the reviews: the keys are there, with None
ScrapedPartial ==
    ("price_per_night" :> R(90)) @@ ("cleaning_fee" :> None) @@ ("num_reviews" :> None)

SearchOutcomes ==
    {[exc |-> TRUE, listings |-> <<>>],
     [exc |-> FALSE, listings |-> <<>>],
     [exc |-> FALSE, listings |-> <<CompA, CompB>>],
     [exc |-> FALSE, listings |-> <<CompA, ScrapedPartial>>]}

\* no request is being served
NoRequest ==
    [route |-> "", pc |-> "none", served |-> 0, payload |-> NoPayload,
     scraped |-> NoScrape, comparable_properties |-> <<>>, search_raised |-> FALSE,
     calc_calls |-> 0, status |-> 0]

\* lines 116-138: the payload is read and validated
AnalyzeProperty(p) ==
    /\ req.pc = "none"
    /\ req.served < MaxRequests
    /\ req' = IF ~p.json \/ p.airbnb_url = "" \/ ~MentionsAirbnb(p.airbnb_url)
              THEN [req EXCEPT !.route = "/analyze", !.payload = p,
                               !.pc = "responded", !.status = 400]
              ELSE [req EXCEPT !.route = "/analyze", !.payload = p, !.pc = "scrape"]
    /\ UNCHANGED <<prec, inputs, frame, ncalls>>

\* lines 142-149: the subject is scraped; a record with an error ends the request
ScrapeSubject(d) ==
    /\ req.route = "/analyze"
    /\ req.pc = "scrape"
    /\ d \in Scrapes(req.payload.airbnb_url)
    /\ req' = IF HasError(d)
              THEN [req EXCEPT !.scraped = d, !.pc = "responded", !.status = 502]
              ELSE [req EXCEPT !.scraped = d, !.pc = "comps"]
    /\ UNCHANGED <<prec, inputs, frame, ncalls>>

\* lines 152-176: the comparables search, skipped when the city is unknown;
\* an exception of the search leaves the list empty
FindComparables(o) ==
    /\ req.route = "/analyze"
    /\ req.pc = "comps"
    /\ LET city == extract_city_from_address(req.scraped.address)
       IN  req' = [req EXCEPT
                      !.pc = "calc",
                      !.search_raised = (city # "Unknown" /\ o.exc),
                      !.comparable_properties =
                          IF city # "Unknown" /\ ~o.exc THEN o.listings ELSE <<>>]
    /\ UNCHANGED <<prec, inputs, frame, ncalls>>

\* lines 180-182: calculate_underwriting is called
Underwrite ==
    /\ req.route = "/analyze"
    /\ req.pc = "calc"
    /\ Construct(1, 1, [subject |-> req.scraped.details,
                        comps |-> req.comparable_properties,
                        custom |-> req.payload.financial_inputs])
    /\ req' = [req EXCEPT !.pc = "running", !.calc_calls = req.calc_calls + 1]

\* lines 186-199: the result is returned with 200; an exception of the
\* calculation reaches the catch-all handler
Respond ==
    /\ req.pc = "running"
    /\ Leave(1)
    /\ req' = [req EXCEPT !.pc = "responded",
                          !.status = IF frame[1].pc = "done" THEN 200 ELSE 500]

\* the response is sent; the next request may arrive
NextRequest ==
    /\ req.pc = "responded"
    /\ req' = [NoRequest EXCEPT !.served = req.served + 1]
    /\ UNCHANGED <<prec, inputs, frame, ncalls>>

----------------------------------------------------------------------------
(* The /test-calculator route of underwriting.py *)

\* the defaults of lines 276-285, with the fields the calculator reads
DefaultMockSubject ==
    ("price_per_night" :> R(120)) @@ ("cleaning_fee" :> R(60)) @@
    ("num_bedrooms" :> R(2)) @@ ("num_bathrooms" :> R(1))
DefaultMockComps ==
    << ("price_per_night" :> R(110)) @@ ("num_reviews" :> R(10)) @@ ("cleaning_fee" :> R(50)),
       ("price_per_night" :> R(130)) @@ ("num_reviews" :> R(30)) @@ ("cleaning_fee" :> R(70)) >>

\* the subject of test_test_calculator_route_success
MockSubjectOfTest ==
    ("price_per_night" :> R(100)) @@ ("num_bedrooms" :> R(3)) @@ ("cleaning_fee" :> R(50))

\* The JSON body: has_subject and has_comps say whether the keys mock_subject
\* and mock_comparables are present; financial_inputs is {} when absent. The
\* empty body {} has none of the three.
TestPayloads ==
    [has_subject : {FALSE}, mock_subject : {EmptyRecord},
     has_comps : {FALSE}, mock_comparables : {<<>>},
     financial_inputs : ApiCustoms]
    \cup
    [has_subject : {TRUE}, mock_subject : {EmptyRecord, MockSubjectOfTest, SubjectFull},
     has_comps : BOOLEAN, mock_comparables : {<<>>},
     financial_inputs : ApiCustoms]
    \cup
    [has_subject : BOOLEAN, mock_subject : {EmptyRecord},
     has_comps : {TRUE}, mock_comparables : {<<CompSparse, CompBare>>},
     financial_inputs : ApiCustoms]

EmptyPayload ==
    [has_subject |-> FALSE, mock_subject |-> EmptyRecord,
     has_comps |-> FALSE, mock_comparables |-> <<>>, financial_inputs |-> <<>>]

\* lines 269-289: the defaults are filled in and calculate_underwriting is called
TestCalculator(p) ==
    /\ req.pc = "none"
    /\ req.served < MaxRequests
    /\ LET mock_subject == IF p.has_subject THEN p.mock_subject ELSE DefaultMockSubject
           mock_comps == IF p.has_comps THEN p.mock_comparables ELSE DefaultMockComps
       IN  Construct(1, 1, [subject |-> mock_subject, comps |-> mock_comps,
                            custom |-> p.financial_inputs])
    /\ req' = [req EXCEPT !.route = "/test-calculator", !.payload = p,
                          !.pc = "running", !.calc_calls = 1]

\* lines 291-294: the results are returned with 200; an exception of the
\* calculation is answered with 500
TestRespond ==
    /\ req.route = "/test-calculator"
    /\ req.pc = "running"
    /\ frame[1].pc \in {"done", "raised"}
    /\ req' = [req EXCEPT !.pc = "responded",
                          !.status = IF frame[1].pc = "done" THEN 200 ELSE 500]
    /\ UNCHANGED <<prec, inputs, frame, ncalls>>

\* the response is sent; the activation of the calculator is gone
TestNextRequest ==
    /\ req.route = "/test-calculator"
    /\ req.pc = "responded"
    /\ Leave(1)
    /\ req' = [NoRequest EXCEPT !.served = req.served + 1]

----------------------------------------------------------------------------
(* Sequential calls of calculate_underwriting *)

Init ==
    /\ prec = 0
    /\ inputs = [e \in {1} |-> FinancialInputs]
    /\ frame = [f \in {1} |-> Idle]
    /\ ncalls = 0
    /\ req = NoRequest

Next ==
    \/ \E a \in Args : ncalls < MaxCalls /\ Call(1, 1, a)
    \/ Step(1)
    \/ Return(1)

Spec == Init /\ [][Next]_vars

----------------------------------------------------------------------------
(* Successive analyze_investment calls on one AirbnbUnderwriter *)

SharedCustoms ==
    { <<>>,
      NoInterest,
      NoInterest \o <<KV("purchase_price", R(300000))>>,
      NoInterest \o <<KV("property_tax_monthly", R(500))>> }

SharedArgs ==
    [subject : {SubjectFull, SubjectNoBath, SubjectCheap}, comps : {<<>>},
     custom : SharedCustoms]

\* underwriter = AirbnbUnderwriter(): self.inputs is FinancialInputs() (line 112)
InitShared ==
    /\ prec = 0
    /\ inputs = [e \in {1} |-> FinancialInputs]
    /\ frame = [f \in {1} |-> Idle]
    /\ ncalls = 0
    /\ req = NoRequest

NextShared ==
    \/ \E a \in SharedArgs : ncalls < MaxCalls /\ Invoke(1, 1, a)
    \/ Step(1)
    \/ Return(1)

SpecShared == InitShared /\ [][NextShared]_vars

----------------------------------------------------------------------------
(* Requests served by the /analyze route *)

InitApi ==
    /\ prec = 0
    /\ inputs = [e \in {1} |-> FinancialInputs]
    /\ frame = [f \in {1} |-> Idle]
    /\ ncalls = 0
    /\ req = NoRequest

NextApi ==
    \/ \E p \in Payloads : AnalyzeProperty(p)
    \/ \E u \in Urls : \E d \in Scrapes(u) : ScrapeSubject(d)
    \/ \E o \in SearchOutcomes : FindComparables(o)
    \/ Underwrite
    \/ Step(1)
    \/ Respond
    \/ NextRequest

SpecApi == InitApi /\ [][NextApi]_vars

----------------------------------------------------------------------------
(* calculate_underwriting in float arithmetic with a MantBits-bit significand *)

MantBits == 5

\* a subject whose fields are floats of few bits
SubjectSmall ==
    ("price_per_night" :> R(8)) @@ ("num_bedrooms" :> R(2)) @@
    ("num_bathrooms" :> R(1)) @@ ("cleaning_fee" :> R(4))

\* interest rates: none, one below the rounding unit of 1.0, and 100% a month
RatesFP == {R(0), Q(1, 1024), R(1200)}

\* purchase prices: a power of two, and odd numbers of five and six bits
PricesFP == {16, 25, 27, 45, 53}

CustomsFP ==
    { <<KV("purchase_price", R(p)), KV("down_payment_percent", R(d)),
        KV("loan_interest_rate", r), KV("loan_term_years", R(t))>> :
          p \in PricesFP, d \in {10, 20}, r \in RatesFP, t \in {0, 1} }

ArgsFP == [subject : {SubjectSmall, EmptyRecord}, comps : {<<>>}, custom : CustomsFP]

InitFP ==
    /\ prec = MantBits
    /\ inputs = [e \in {1} |-> FinancialInputs]
    /\ frame = [f \in {1} |-> Idle]
    /\ ncalls = 0
    /\ req = NoRequest

NextFP ==
    \/ \E a \in ArgsFP : ncalls < MaxCalls /\ Call(1, 1, a)
    \/ Step(1)
    \/ Return(1)

SpecFP == InitFP /\ [][NextFP]_vars

----------------------------------------------------------------------------
(* Requests served by the /test-calculator route *)

InitTest ==
    /\ prec = 0
    /\ inputs = [e \in {1} |-> FinancialInputs]
    /\ frame = [f \in {1} |-> Idle]
    /\ ncalls = 0
    /\ req = NoRequest

NextTest ==
    \/ \E p \in TestPayloads : TestCalculator(p)
    \/ Step(1)
    \/ TestRespond
    \/ TestNextRequest

SpecTest == InitTest /\ [][NextTest]_vars

----------------------------------------------------------------------------
(* calculate_underwriting called with arguments of the wrong shape *)

ShapeCustoms ==
    { <<>>, ListCustom,
      NoInterest \o <<KV("purchase_price", R(300000))>>,
      NoInterest \o <<KV("vacancy_rate", Q(1, 2))>> }

ArgsShape ==
    [subject : {SubjectFull, NoneSubject, ListSubject},
     comps : {<<>>, <<CompA, CompB>>, NoneComps},
     custom : ShapeCustoms]

InitShape ==
    /\ prec = 0
    /\ inputs = [e \in {1} |-> FinancialInputs]
    /\ frame = [f \in {1} |-> Idle]
    /\ ncalls = 0
    /\ req = NoRequest

NextShape ==
    \/ \E a \in ArgsShape : ncalls < MaxCalls /\ Call(1, 1, a)
    \/ Step(1)
    \/ Return(1)

SpecShape == InitShape /\ [][NextShape]_vars

----------------------------------------------------------------------------
(* Properties *)

\* the steps of analyze_investment, in the order of lines 134-182
Stages ==
    <<"update", "estimate", "loan", "revenue", "expenses", "cash_flows", "roi",
      "additional", "assumptions", "done">>

StageNo(pc) == CHOOSE i \in 1..Len(Stages) : Stages[i] = pc

\* the activation has completed the step stage and has not raised
Passed(fr, stage) ==
    /\ fr.pc \in {Stages[i] : i \in 1..Len(Stages)}
    /\ StageNo(fr.pc) > StageNo(stage)

ScenarioSet == {"best_case", "average_case", "worst_case"}

\* an override of a known field whose value the field's type does not accept
Uncoercible(o) ==
    o.key \in FieldNames /\ Coerce(FieldType(o.key), o.value).exc # ""

\* C1: when an override names a known field and its value cannot be coerced
\* to the field's type, the field keeps the value it had, the other overrides
\* are applied, and the analysis goes on to return a result: it never raises.
C1_FailedCoercionKeepsValue ==
    \A f \in DOMAIN frame :
        LET fr == frame[f]
            custom == fr.args.custom
        IN  (\E i \in 1..Len(custom) : Uncoercible(custom[i])) =>
                /\ fr.pc # "raised"
                /\ fr.pc = "estimate" =>
                       \A i \in 1..Len(custom) :
                           custom[i].key \in FieldNames =>
                               inputs[fr.eng][custom[i].key] =
                                   IF Uncoercible(custom[i])
                                   THEN FinancialInputs[custom[i].key]
                                   ELSE Coerce(FieldType(custom[i].key),
                                               custom[i].value).val

\* C2: when the record scraped for the subject carries an error, the request
\* is answered with status 502 and calculate_underwriting is not called for it.
C2_ScrapeErrorStops ==
    req.scraped.error # "" =>
        /\ req.calc_calls = 0
        /\ req.pc = "responded"
        /\ req.status = 502

\* a request that passed the route's validation, whose scrape failed on the
\* network, answered
C2_Witness ==
    /\ req.pc = "responded"
    /\ req.status = 502
    /\ req.scraped.error = "Network error fetching URL: timeout"
    /\ req.calc_calls = 0

\* the subject has a nightly price and no field that is None
PricedSubject(subject) ==
    /\ "price_per_night" \in DOMAIN subject
    /\ \A k \in DOMAIN subject : subject[k] # None

InUnitInterval(v) == RGe(v, R(0)) /\ RLe(v, R(1))

C4_NeverRaises ==
    \A f \in DOMAIN frame :
        LET fr == frame[f]
        IN  /\ fr.pc # "raised"
            /\ fr.pc = "done" =>
                   /\ fr.assumptions.loan_term_years = R(0) =>
                          fr.loan_metrics.monthly_payment = fr.loan_metrics.loan_amount
                   /\ fr.loan_metrics.total_investment = R(0) =>
                          fr.roi_metrics.average_case.roi = R(0)

\* calculate_underwriting as a function of its arguments: the steps of lines
\* 134-154 applied to the inputs of a FinancialInputs() just built
Analysis(a) ==
    LET u == _update_inputs(FinancialInputs, a.custom)
        inp == ResolvePrice(u.inputs, a.subject)
        loan == _calculate_loan_metrics(inp)
        rev == _analyze_revenue_scenarios(a.subject, a.comps, inp)
        taxed == EstimateTax(inp)
        mop == _calculate_monthly_operating_expenses(taxed, rev.average_case)
        flows == _calculate_cash_flows(rev, mop, loan.monthly_payment)
        exc == IF u.exc # "" THEN u.exc ELSE IF loan.exc # "" THEN loan.exc ELSE rev.exc
        completed ==
            [Idle EXCEPT
                !.loan_metrics = loan,
                !.revenue_scenarios = rev,
                !.monthly_op_expenses = mop,
                !.cash_flows = flows,
                !.roi_metrics = _calculate_roi_metrics(flows, loan.total_investment),
                !.additional_metrics =
                    _calculate_additional_metrics(taxed, rev.average_case,
                                                  FMul(mop, R(12)), loan),
                !.assumptions = _compile_assumptions(taxed)]
    IN  [exc |-> exc, result |-> IF exc = "" THEN Result(completed) ELSE <<>>]

\* C5: what a call of calculate_underwriting returns, or raises, is determined
\* by its three arguments alone: no earlier call has any influence on it.
C5_DeterminedByArguments ==
    \A f \in DOMAIN frame :
        /\ frame[f].pc = "done" =>
               /\ Analysis(frame[f].args).exc = ""
               /\ Result(frame[f]) = Analysis(frame[f].args).result
        /\ frame[f].pc = "raised" => frame[f].exc = Analysis(frame[f].args).exc

\* the second call of a behaviour has returned, with a price that was resolved
\* during the call
C5_Witness ==
    /\ ncalls = 2
    /\ \E f \in DOMAIN frame :
           /\ frame[f].pc = "done"
           /\ frame[f].args.subject = EmptyRecord
           /\ frame[f].args.custom = NoInterest
           /\ Result(frame[f]).assumptions.purchase_price = R(250000)

\* the overrides name neither the purchase price nor the property tax
OwnUnset(custom) ==
    \A i \in 1..Len(custom) :
        custom[i].key \notin {"purchase_price", "property_tax_monthly"}

\* C6 as stated: a call of analyze_investment that sets neither the purchase
\* price nor the property tax reports the price and the tax resolved from its
\* own subject, as on a new instance, whatever the instance was used for before.
C6_NoLeakBetweenCalls ==
    \A f \in DOMAIN frame :
        (frame[f].pc = "done" /\ OwnUnset(frame[f].args.custom)) =>
            /\ frame[f].assumptions.purchase_price =
                   Analysis(frame[f].args).result.assumptions.purchase_price
            /\ frame[f].assumptions.property_tax_monthly =
                   Analysis(frame[f].args).result.assumptions.property_tax_monthly

\* the subject has the three fields the estimate needs
Estimable(subject) ==
    \A k \in {"price_per_night", "num_bedrooms", "num_bathrooms"} :
        k \in DOMAIN subject /\ subject[k] # None

\* the purchase price documented for a price of zero
ExpectedPrice(subject) ==
    IF Estimable(subject)
    THEN LET v == RMul(RMul(RMul(subject["price_per_night"], R(365 * 15)),
                            RAdd(R(1), RMul(Q(2, 10), subject["num_bedrooms"]))),
                       RAdd(R(1), RMul(Q(1, 10), subject["num_bathrooms"])))
         IN  IF RLt(v, R(50000)) THEN R(50000)
             ELSE IF RGt(v, R(5000000)) THEN R(5000000) ELSE v
    ELSE R(250000)

\* the overrides leave the purchase price of a new FinancialInputs() at zero
PriceUnset(custom) ==
    _update_inputs(FinancialInputs, custom).inputs.purchase_price = R(0)

RECURSIVE BigScale(_, _, _)
BigScale(a, k, carry) ==
    IF a = <<>>
    THEN IF carry = 0 THEN <<>> ELSE <<carry % 1000>> \o BigScale(a, k, carry \div 1000)
    ELSE <<(Head(a) * k + carry) % 1000>>
             \o BigScale(Tail(a), k, (Head(a) * k + carry) \div 1000)

\* the quotient of the digits i, ..., 1 of a, preceded by rem, and k
RECURSIVE BigDivFrom(_, _, _, _)
BigDivFrom(a, k, i, rem) ==
    IF i = 0 THEN <<>>
    ELSE BigDivFrom(a, k, i - 1, (rem * 1000 + a[i]) % k)
             \o <<(rem * 1000 + a[i]) \div k>>

\* a \div k
BigDiv(a, k) == BigDivFrom(a, k, Len(a), 0)

\* a - b - borrow, for a >= b + borrow; the result has the length of a
RECURSIVE BigSub(_, _, _)
BigSub(a, b, borrow) ==
    IF a = <<>> THEN <<>>
    ELSE LET y == (IF b = <<>> THEN 0 ELSE Head(b)) + borrow
             rest == IF b = <<>> THEN b ELSE Tail(b)
         IN  IF Head(a) >= y THEN <<Head(a) - y>> \o BigSub(Tail(a), rest, 0)
             ELSE <<Head(a) + 1000 - y>> \o BigSub(Tail(a), rest, 1)

\* a without its leading zero digits
RECURSIVE BigTrim(_)
BigTrim(a) ==
    IF a # <<>> /\ a[Len(a)] = 0 THEN BigTrim(SubSeq(a, 1, Len(a) - 1)) ELSE a

\* a < b for trimmed a and b of one length, compared from digit i down
RECURSIVE BigLessFrom(_, _, _)
BigLessFrom(a, b, i) ==
    IF i = 0 THEN FALSE
    ELSE IF a[i] # b[i] THEN a[i] < b[i]
    ELSE BigLessFrom(a, b, i - 1)

BigLess(a, b) ==
    LET x == BigTrim(a)
        y == BigTrim(b)
    IN  IF Len(x) # Len(y) THEN Len(x) < Len(y) ELSE BigLessFrom(x, y, Len(x))

\* a + b + carry
RECURSIVE BigAdd(_, _, _)
BigAdd(a, b, carry) ==
    IF a = <<>> /\ b = <<>> THEN (IF carry = 0 THEN <<>> ELSE <<carry>>)
    ELSE LET x == IF a = <<>> THEN 0 ELSE Head(a)
             y == IF b = <<>> THEN 0 ELSE Head(b)
         IN  <<(x + y + carry) % 1000>>
                 \o BigAdd(IF a = <<>> THEN a ELSE Tail(a),
                           IF b = <<>> THEN b ELSE Tail(b),
                           (x + y + carry) \div 1000)

\* a * b
RECURSIVE BigMul(_, _)
BigMul(a, b) ==
    IF b = <<>> THEN <<>>
    ELSE BigAdd(BigScale(a, Head(b), 0), <<0>> \o BigMul(a, Tail(b)), 0)

\* 1 in fixed point: 10^12
BigOne == <<0, 0, 0, 0, 1>>

\* the product of two fixed-point numbers, rounded down
FixMul(x, y) == LET z == BigMul(x, y) IN SubSeq(z, 5, Len(z))

\* A bound of ((d + 1) / d)^n in fixed point, from below (up = 0) or from
\* above (up = 1): every operation is rounded down, and 1 is added to its
\* result for the bound from above.
RECURSIVE GrowthBound(_, _, _)
GrowthBound(d, n, up) ==
    IF n = 0 THEN BigOne
    ELSE IF n % 2 = 1
    THEN BigScale(BigDiv(BigScale(GrowthBound(d, n - 1, up), d + 1, 0), d), 1, up)
    ELSE LET h == GrowthBound(d, n \div 2, up)
         IN  BigScale(FixMul(h, h), 1, up)

\* The payment L * r * g / (g - 1), with r = 1/d and g = (1 + r)^n, lies
\* strictly between lo/1000 and hi/1000.  The payment falls as g grows, so it
\* is at most its value at the lower bound of g and at least its value at the
\* upper bound.
PaymentBetween(L, d, n, lo, hi) ==
    LET below == GrowthBound(d, n, 0)
        above == GrowthBound(d, n, 1)
    IN  /\ BigLess(BigScale(BigScale(BigSub(above, BigOne, 0), d, 0), lo, 0),
                   BigScale(BigScale(above, L, 0), 1000, 0))
        /\ BigLess(BigScale(BigScale(below, L, 0), 1000, 0),
                   BigScale(BigScale(BigSub(below, BigOne, 0), d, 0), hi, 0))

\* the documented reference example: 240000 borrowed at 6% a year
\* (1/200 a month) over 360 payments costs 1438.92 a month to the cent
ReferenceExample == PaymentBetween(240000, 200, 360, 1438915, 1438925)

\* C8: with L the loan amount, r the monthly rate and n the number of
\* payments, the monthly payment is L * r * (1 + r)^n / ((1 + r)^n - 1) when
\* r > 0 and n > 0, L / n when r = 0 and n > 0, and L when n = 0; for
\* L = 240000, r = 0.005 and n = 360 the first expression is 1438.92.
C8_MonthlyPayment ==
    /\ ReferenceExample
    /\ \A f \in DOMAIN frame :
        LET fr == frame[f]
            L == fr.loan_metrics.loan_amount
            M == fr.loan_metrics.monthly_payment
            r == RDiv(RDiv(inputs[fr.eng].loan_interest_rate, R(100)), R(12))
            n == Trunc(inputs[fr.eng].loan_term_years) * 12
            g == RPow(RAdd(R(1), r), n)
        IN  Passed(fr, "loan") =>
                /\ n = 0 => M = L
                /\ (n > 0 /\ r = R(0)) => M = RDiv(L, R(n))
                /\ (n > 0 /\ RGt(r, R(0)) /\ M # Top) =>
                       M = RDiv(RMul(L, RMul(r, g)), RSub(g, R(1)))

\* a loan of 40950 at 100% a month over 12 payments: 40950 * 4096 / 4095
C8_Witness ==
    \E f \in DOMAIN frame :
        /\ frame[f].pc = "done"
        /\ frame[f].assumptions.loan_interest_rate = R(1200)
        /\ frame[f].assumptions.loan_term_years = R(1)
        /\ frame[f].loan_metrics.loan_amount = R(40950)
        /\ frame[f].loan_metrics.monthly_payment = R(40960)

\* C9 as stated: the down payment and the loan amount add up to the purchase
\* price exactly.
C9_DownPaymentPlusLoan ==
    \A f \in DOMAIN frame :
        Passed(frame[f], "loan") =>
            FAdd(frame[f].loan_metrics.down_payment, frame[f].loan_metrics.loan_amount)
                = inputs[frame[f].eng].purchase_price

\* C10: in every scenario, with the annual cash flow 12 * (monthly revenue -
\* monthly operating expenses - monthly payment): the payback period is
\* infinite when the cash flow is not positive and total investment / cash
\* flow otherwise; the ROI is cash flow / total investment * 100 when the
\* total investment is positive and 0 otherwise.
C10_PaybackAndRoi ==
    \A f \in DOMAIN frame :
        LET fr == frame[f]
            total == fr.loan_metrics.total_investment
        IN  (Passed(fr, "roi") /\ fr.loan_metrics.monthly_payment # Top) =>
                \A k \in ScenarioSet :
                    LET acf == RMul(R(12),
                                    RSub(RSub(fr.revenue_scenarios[k].monthly_revenue,
                                              fr.monthly_op_expenses),
                                         fr.loan_metrics.monthly_payment))
                    IN  /\ fr.cash_flows[k].annual = acf
                        /\ fr.roi_metrics[k].payback =
                               IF RLe(acf, R(0)) THEN Inf ELSE RDiv(total, acf)
                        /\ fr.roi_metrics[k].roi =
                               IF RGt(total, R(0))
                               THEN RMul(RDiv(acf, total), R(100)) ELSE R(0)

\* an analysis that loses money in the average case: no payback, negative ROI
C10_Witness ==
    \E f \in DOMAIN frame :
        /\ frame[f].pc = "done"
        /\ RLt(frame[f].cash_flows.average_case.annual, R(0))
        /\ frame[f].roi_metrics.average_case.payback = Inf
        /\ RLt(frame[f].roi_metrics.average_case.roi, R(0))
        /\ RGt(frame[f].roi_metrics.best_case.payback, R(0))
        /\ frame[f].roi_metrics.best_case.payback # Inf

----------------------------------------------------------------------------
(* C11 - C20 *)

\* C11: in every result, the final occupancy rate of each of the three
\* scenarios lies between 0.10 and 0.95, both included.
C11_OccupancyBounds ==
    \A f \in DOMAIN frame :
        Passed(frame[f], "revenue") =>
            \A k \in ScenarioSet :
                LET occupancy_rate == frame[f].revenue_scenarios[k].occupancy_rate
                IN  /\ IsNum(occupancy_rate)
                    /\ RLe(Q(10, 100), occupancy_rate)
                    /\ RLe(occupancy_rate, Q(95, 100))

\* a result whose best case is capped at 0.95 from above and whose worst
\* case is raised to the floor of 0.10
C11_Witness ==
    \E f \in DOMAIN frame :
        LET fr == frame[f]
            m == MarketAverages(fr.args.subject, fr.args.comps, inputs[fr.eng])
        IN  /\ fr.pc = "done"
            /\ RGt(RMul(m.occupancy, occ_factor("best_case")), Q(95, 100))
            /\ fr.revenue_scenarios.best_case.occupancy_rate = Q(95, 100)
            /\ RLt(RMul(RMul(m.occupancy, occ_factor("worst_case")),
                        RSub(R(1), inputs[fr.eng].vacancy_rate)), Q(10, 100))
            /\ fr.revenue_scenarios.worst_case.occupancy_rate = Q(10, 100)

\* the prices and cleaning fees of the subject and of the comparables are
\* non-negative numbers
NonNegativePrices(subject, comps) ==
    LET ok(rec, key) == key \in DOMAIN rec => (IsNum(rec[key]) /\ RGe(rec[key], R(0)))
    IN  /\ ok(subject, "price_per_night") /\ ok(subject, "cleaning_fee")
        /\ \A i \in 1..Len(comps) :
               ok(comps[i], "price_per_night") /\ ok(comps[i], "cleaning_fee")

\* C12: for non-negative nightly prices and cleaning fees and a vacancy rate
\* in [0, 1], when the market ADR of the comparables is at least the subject's
\* nightly price, the best case's annual revenue is at least the average
\* case's annual revenue.
C12_BestAtLeastAverage ==
    \A f \in DOMAIN frame :
        LET fr == frame[f]
            inp == inputs[fr.eng]
            m == MarketAverages(fr.args.subject, fr.args.comps, inp)
        IN  ( /\ Passed(fr, "revenue")
              /\ NonNegativePrices(fr.args.subject, fr.args.comps)
              /\ RGe(inp.vacancy_rate, R(0)) /\ RLe(inp.vacancy_rate, R(1))
              /\ RGe(m.adr, m.subject_adr) ) =>
                RGe(fr.revenue_scenarios.best_case.annual_revenue,
                    fr.revenue_scenarios.average_case.annual_revenue)

\* a result on comparables whose mean rate equals the subject's, with a
\* vacancy rate of one half: the best case earns strictly more
C12_Witness ==
    \E f \in DOMAIN frame :
        LET fr == frame[f]
            m == MarketAverages(fr.args.subject, fr.args.comps, inputs[fr.eng])
        IN  /\ fr.pc = "done"
            /\ Len(fr.args.comps) > 0
            /\ NonNegativePrices(fr.args.subject, fr.args.comps)
            /\ inputs[fr.eng].vacancy_rate = Q(1, 2)
            /\ RGe(m.adr, m.subject_adr)
            /\ RGt(fr.revenue_scenarios.best_case.annual_revenue,
                   fr.revenue_scenarios.average_case.annual_revenue)

FieldsAbsentOnly(rec) == \A k \in DOMAIN rec : IsNum(rec[k])

\* the market averages with the documented defaults written out: nightly
\* price 100 and cleaning fee 0 for the subject; the subject's figures for a
\* comparable's price and fee; 0 reviews and 300 available nights
DefaultedAverages(subject, comps, inp) ==
    LET has(rec, key) == key \in DOMAIN rec
        subject_adr == IF has(subject, "price_per_night")
                       THEN subject["price_per_night"] ELSE R(100)
        subject_fee == IF has(subject, "cleaning_fee") THEN subject["cleaning_fee"] ELSE R(0)
        adr(c) == IF has(c, "price_per_night") THEN c["price_per_night"] ELSE subject_adr
        fee(c) == IF has(c, "cleaning_fee") THEN c["cleaning_fee"] ELSE subject_fee
        reviews(c) == IF has(c, "num_reviews") THEN c["num_reviews"] ELSE R(0)
        nights(c) == IF has(c, "availability_365") THEN c["availability_365"] ELSE R(300)
        occ(c) == IF RGt(reviews(c), R(0)) /\ RGt(nights(c), R(0))
                  THEN LET o == RDiv(RMul(RMul(reviews(c), R(4)), inp.average_stay_length),
                                     nights(c))
                       IN  IF RLt(o, Q(95, 100)) THEN o ELSE Q(95, 100)
                  ELSE Q(1, 2)
        n == Len(comps)
    IN  [adr |-> IF n = 0 THEN subject_adr
                 ELSE RDiv(SumSeq([i \in 1..n |-> adr(comps[i])], 1), R(n)),
         cleaning_fee |-> IF n = 0 THEN subject_fee
                          ELSE RDiv(SumSeq([i \in 1..n |-> fee(comps[i])], 1), R(n)),
         occupancy |-> IF n = 0 THEN Q(65, 100)
                       ELSE RDiv(SumSeq([i \in 1..n |-> occ(comps[i])], 1), R(n))]

\* C15: a subject or comparable record with any subset of its fields absent is
\* accepted: the defaults stand in for the absent fields (subject nightly
\* price 100 and cleaning fee 0, a comparable's price and fee from the
\* subject, review count 0, availability 300), no step fails on the records,
\* and with the default financial inputs the analysis completes.
C15_SparseRecordsAccepted ==
    \A f \in DOMAIN frame :
        LET fr == frame[f]
            d == DefaultedAverages(fr.args.subject, fr.args.comps, inputs[fr.eng])
            average == fr.revenue_scenarios.average_case
        IN  ( /\ fr.pc # "idle"
              /\ FieldsAbsentOnly(fr.args.subject)
              /\ \A i \in 1..Len(fr.args.comps) : FieldsAbsentOnly(fr.args.comps[i]) ) =>
                /\ fr.pc = "raised" => fr.at \notin {"estimate", "revenue"}
                /\ fr.args.custom = <<>> => fr.pc # "raised"
                /\ Passed(fr, "revenue") =>
                       /\ average.adr = d.adr
                       /\ MarketAverages(fr.args.subject, fr.args.comps,
                                         inputs[fr.eng]).occupancy = d.occupancy
                       /\ RGt(inputs[fr.eng].average_stay_length, R(0)) =>
                              average.cleaning_revenue =
                                  RMul(RDiv(average.total_nights_booked,
                                            inputs[fr.eng].average_stay_length),
                                       d.cleaning_fee)

\* a result for a subject with no fields at all and two sparse comparables,
\* under the default inputs: ADR (90 + 100) / 2, market occupancy
\* (0.40 + 0.50) / 2, no cleaning revenue
C15_Witness ==
    \E f \in DOMAIN frame :
        LET fr == frame[f]
        IN  /\ fr.pc = "done"
            /\ fr.args.subject = EmptyRecord
            /\ fr.args.comps = <<CompSparse, CompBare>>
            /\ fr.args.custom = <<>>
            /\ fr.revenue_scenarios.average_case.adr = R(95)
            /\ fr.revenue_scenarios.best_case.occupancy_rate = Q(54, 100)
            /\ fr.revenue_scenarios.average_case.cleaning_revenue = R(0)
            /\ fr.assumptions.purchase_price = R(250000)

\* one of the three arguments does not have the shape of its parameter
Malformed(a) ==
    \/ ~IsMapping(a.subject)
    \/ a.comps = NoneComps
    \/ a.custom = ListCustom

\* C16: when the subject, the list of comparables or the override mapping
\* does not have the required shape, the run fails before any calculation
\* begins: it never gets past the override step, and when the failure is
\* raised no loan metrics, revenue scenarios or expenses have been computed
\* and the inputs have not been changed.
C16_MalformedFailsFast ==
    \A f \in DOMAIN frame :
        LET fr == frame[f]
        IN  (fr.pc # "idle" /\ Malformed(fr.args)) =>
                /\ fr.pc \in {"update", "raised"}
                /\ fr.loan_metrics = NoLoan
                /\ fr.revenue_scenarios = NoScenarios
                /\ fr.monthly_op_expenses = None
                /\ inputs[fr.eng] = FinancialInputs

\* the fields of the inputs that are amounts of money
MonetaryFields ==
    {"purchase_price", "closing_costs", "renovation_costs", "furniture_costs",
     "property_tax_monthly", "insurance_monthly", "hoa_fees_monthly",
     "utilities_monthly", "internet_monthly", "maintenance_monthly"}

\* C17: once the override step has run, and at every later step of the run,
\* every monetary field of the inputs is at least 0, whatever numeric
\* override values were supplied.
C17_MonetaryFieldsNonNegative ==
    \A f \in DOMAIN frame :
        LET fr == frame[f]
        IN  (Passed(fr, "update") \/ (fr.pc = "raised" /\ fr.at # "update")) =>
                \A k \in MonetaryFields : RGe(inputs[fr.eng][k], R(0))

\* the overrides without those whose key is not a field name
RECURSIVE KnownOnly(_)
KnownOnly(custom) ==
    IF Len(custom) = 0 THEN <<>>
    ELSE IF custom[1].key \in FieldNames THEN <<custom[1]>> \o KnownOnly(Tail(custom))
    ELSE KnownOnly(Tail(custom))

\* C18: an override whose key is not a field name is ignored: when the
\* override step has run, every field has the value it would have had if the
\* mapping had not held that key.
C18_UnknownKeysIgnored ==
    \A f \in DOMAIN frame :
        LET fr == frame[f]
        IN  (fr.pc = "estimate" /\ KnownOnly(fr.args.custom) # fr.args.custom) =>
                inputs[fr.eng] =
                    _update_inputs(FinancialInputs, KnownOnly(fr.args.custom)).inputs

\* C19: in the /analyze flow, when the search for comparables raises, the
\* request still calls calculate_underwriting exactly once, with the scraped
\* subject and an empty list of comparables, and responds 200 with
\* comparable_properties = [].
C19_SearchFailureStillAnswers ==
    (req.route = "/analyze" /\ req.search_raised) =>
        /\ req.pc = "calc" => req.calc_calls = 0
        /\ req.pc = "running" =>
               /\ req.calc_calls = 1
               /\ frame[1].args.subject = req.scraped.details
               /\ frame[1].args.comps = <<>>
        /\ req.pc = "responded" =>
               /\ req.calc_calls = 1
               /\ req.status = 200
               /\ req.comparable_properties = <<>>

\* C20: a /test-calculator request with the empty payload, answered with the
\* results of the calculation, reports assumptions.purchase_price = 250000.
C20_EmptyPayloadPrice ==
    ( /\ req.route = "/test-calculator"
      /\ req.payload = EmptyPayload
      /\ req.pc = "responded" ) =>
        /\ req.status = 200
        /\ frame[1].assumptions.purchase_price = R(250000)

----------------------------------------------------------------------------
(* C21 - C30 *)

\* the steps of analyze_investment that follow the override step
AfterOverride ==
    {"estimate", "loan", "revenue", "expenses", "cash_flows", "roi", "additional",
     "assumptions"}

\* C21: within one run the inputs are changed only by the override step: from
\* the moment _update_inputs returns until analyze_investment returns, no
\* step modifies a field of self.inputs.
C21_ReadOnlyAfterOverride ==
    [][\A f \in DOMAIN frame :
           frame[f].pc \in AfterOverride =>
               inputs'[frame[f].eng] = inputs[frame[f].eng]]_vars

\* C21 as the code has it: after the override step a field changes only from
\* zero, and only in two places: purchase_price when the price is resolved
\* (lines 137-140) and property_tax_monthly when the expenses are computed
\* (lines 384-385); every other field stays as the override step left it.
C21_OnlyLazyEstimatesWritten ==
    [][\A f \in DOMAIN frame :
           frame[f].pc \in AfterOverride =>
               \A k \in FieldNames :
                   inputs'[frame[f].eng][k] # inputs[frame[f].eng][k] =>
                       /\ inputs[frame[f].eng][k] = R(0)
                       /\ \/ k = "purchase_price" /\ frame[f].pc = "estimate"
                          \/ k = "property_tax_monthly" /\ frame[f].pc = "expenses"]_vars

\* a completed run in which both writes happened: the inputs differ from what
\* the override step left in the price and in the tax, and in nothing else
C21_Witness ==
    \E f \in DOMAIN frame :
        LET fr == frame[f]
            overridden == _update_inputs(FinancialInputs, fr.args.custom).inputs
        IN  /\ fr.pc = "done"
            /\ overridden.purchase_price = R(0)
            /\ overridden.property_tax_monthly = R(0)
            /\ inputs[fr.eng].purchase_price # R(0)
            /\ inputs[fr.eng].property_tax_monthly # R(0)
            /\ \A k \in FieldNames \ {"purchase_price", "property_tax_monthly"} :
                   inputs[fr.eng][k] = overridden[k]

\* the activation has gone through the price resolution: it is at a later
\* step, or an exception was raised at a later step
PriceResolved(fr) ==
    \/ Passed(fr, "estimate")
    \/ fr.pc = "raised" /\ fr.at \notin {"update", "estimate"}

\* C22: in every run the purchase price is resolved before the loan metrics
\* are computed and is non-zero at that moment; the estimator is used only
\* when the price is zero after the override step, so a non-zero price
\* supplied by the caller is never replaced.
C22_PriceResolvedBeforeLoan ==
    \A f \in DOMAIN frame :
        LET fr == frame[f]
            price == inputs[fr.eng].purchase_price
            supplied == _update_inputs(FinancialInputs, fr.args.custom).inputs.purchase_price
            down_payment == RMul(price, RDiv(inputs[fr.eng].down_payment_percent, R(100)))
        IN  /\ fr.pc \in {"update", "estimate"} => fr.loan_metrics = NoLoan
            /\ PriceResolved(fr) =>
                   /\ price # R(0)
                   /\ supplied # R(0) => price = supplied
            /\ Passed(fr, "loan") =>
                   /\ fr.loan_metrics.down_payment = down_payment
                   /\ fr.loan_metrics.loan_amount = RSub(price, down_payment)

\* a completed run for a subject whose value can be estimated, with a price
\* supplied by the caller: the loan is on the supplied price, not the estimate
C22_Witness ==
    \E f \in DOMAIN frame :
        LET fr == frame[f]
        IN  /\ fr.pc = "done"
            /\ Estimable(fr.args.subject)
            /\ ~PriceUnset(fr.args.custom)
            /\ inputs[fr.eng].purchase_price = R(300000)
            /\ ExpectedPrice(fr.args.subject) # R(300000)
            /\ fr.loan_metrics.loan_amount = R(240000)

\* the occupancy derived for a comparable with the given review count and
\* days of availability
DerivedOccupancy(review_count, availability_days, average_stay_length) ==
    IF RGt(review_count, R(0)) /\ RGt(availability_days, R(0))
    THEN LET nights == RMul(RMul(review_count, R(4)), average_stay_length)
             o == RDiv(nights, availability_days)
         IN  IF RLt(o, Q(95, 100)) THEN o ELSE Q(95, 100)
    ELSE Q(50, 100)

\* the number of positions of the list that hold the comparable c
Occurrences(comps, c) == Cardinality({i \in 1..Len(comps) : comps[i] = c})

\* the mean as a sum over the distinct comparables, each weighted by the
\* number of times it occurs: the order of the list plays no part in it
WeightedMeanOccupancy(comps, average_stay_length) ==
    LET distinct == {comps[i] : i \in 1..Len(comps)}
        RECURSIVE Total(_)
        Total(S) ==
            IF S = {} THEN R(0)
            ELSE LET c == CHOOSE x \in S : TRUE
                 IN  RAdd(RMul(R(Occurrences(comps, c)),
                               DerivedOccupancy(Get(c, "num_reviews", R(0)),
                                                Get(c, "availability_365", R(300)),
                                                average_stay_length)),
                          Total(S \ {c}))
    IN  RDiv(Total(distinct), R(Len(comps)))

\* C23: the occupancy derived for a comparable is min(0.95, review_count * 4 *
\* average_stay_length / availability_days) when both counts are positive and
\* 0.50 otherwise; the market occupancy is the arithmetic mean of these values
\* over all comparables, duplicates counted and the order irrelevant; the
\* average case's occupancy is derived from that mean.
C23_MarketOccupancyIsMean ==
    \A f \in DOMAIN frame :
        LET fr == frame[f]
            inp == inputs[fr.eng]
            comps == fr.args.comps
            m == MarketAverages(fr.args.subject, comps, inp)
            mean == WeightedMeanOccupancy(comps, inp.average_stay_length)
            vacant == RMul(mean, RSub(R(1), inp.vacancy_rate))
        IN  (Passed(fr, "revenue") /\ Len(comps) > 0) =>
                /\ \A i \in 1..Len(comps) :
                       CompOccupancy(comps[i], inp) =
                           DerivedOccupancy(Get(comps[i], "num_reviews", R(0)),
                                            Get(comps[i], "availability_365", R(300)),
                                            inp.average_stay_length)
                /\ m.occupancy = mean
                /\ fr.revenue_scenarios.average_case.occupancy_rate =
                       IF RLt(vacant, Q(10, 100)) THEN Q(10, 100)
                       ELSE IF RGt(vacant, Q(95, 100)) THEN Q(95, 100) ELSE vacant

\* a result on a list that holds one comparable twice, a capped occupancy
\* (0.95, twice) and an uncapped one (0.40): the mean is 2.30 / 3, and the
\* average case under the default vacancy has 0.85 of it
C23_Witness ==
    \E f \in DOMAIN frame :
        LET fr == frame[f]
        IN  /\ fr.pc = "done"
            /\ fr.args.comps = <<CompB, CompSparse, CompB>>
            /\ inputs[fr.eng].average_stay_length = R(3)
            /\ inputs[fr.eng].vacancy_rate = Q(15, 100)
            /\ MarketAverages(fr.args.subject, fr.args.comps, inputs[fr.eng]).occupancy
                   = Q(230, 300)
            /\ fr.revenue_scenarios.average_case.occupancy_rate =
                   RMul(Q(230, 300), Q(85, 100))

\* the vacancy rates of the second run
VacancyRates == {R(0), Q(15, 100), Q(1, 2), Q(9, 10), R(1)}

\* x cut to the interval [0.10, 0.95]
FlooredAndCapped(x) ==
    IF RLt(x, Q(10, 100)) THEN Q(10, 100)
    ELSE IF RGt(x, Q(95, 100)) THEN Q(95, 100) ELSE x

\* C24: the vacancy rate is not applied to the best case: a run that differs
\* only in vacancy_rate produces the same best_case scenario, whose occupancy
\* is market occupancy * 1.20 cut to [0.10, 0.95]; the average and the worst
\* case have market occupancy * (1 - vacancy_rate) and market occupancy *
\* 0.70 * (1 - vacancy_rate) before the floor and the cap.
C24_BestCaseIgnoresVacancy ==
    \A f \in DOMAIN frame :
        LET fr == frame[f]
            inp == inputs[fr.eng]
            m == MarketAverages(fr.args.subject, fr.args.comps, inp)
            unoccupied == RSub(R(1), inp.vacancy_rate)
        IN  Passed(fr, "revenue") =>
                /\ \A v \in VacancyRates :
                       _analyze_revenue_scenarios(
                           fr.args.subject, fr.args.comps,
                           [inp EXCEPT !.vacancy_rate = v]).best_case
                       = fr.revenue_scenarios.best_case
                /\ fr.revenue_scenarios.best_case.occupancy_rate =
                       FlooredAndCapped(RMul(m.occupancy, Q(120, 100)))
                /\ fr.revenue_scenarios.average_case.occupancy_rate =
                       FlooredAndCapped(RMul(m.occupancy, unoccupied))
                /\ fr.revenue_scenarios.worst_case.occupancy_rate =
                       FlooredAndCapped(RMul(RMul(m.occupancy, Q(70, 100)), unoccupied))

\* a result under a vacancy rate of one half with no comparables: the best
\* case has 0.65 * 1.20 = 0.78, the average case 0.325, the worst 0.2275
C24_Witness ==
    \E f \in DOMAIN frame :
        LET fr == frame[f]
        IN  /\ fr.pc = "done"
            /\ fr.args.comps = <<>>
            /\ inputs[fr.eng].vacancy_rate = Q(1, 2)
            /\ fr.revenue_scenarios.best_case.occupancy_rate = Q(78, 100)
            /\ fr.revenue_scenarios.average_case.occupancy_rate = Q(325, 1000)
            /\ fr.revenue_scenarios.worst_case.occupancy_rate = Q(2275, 10000)

\* the mean of the comparables' nightly prices, a comparable without a price
\* counting with the subject's; the subject's price when there are none
MarketAdr(subject, comps) ==
    LET subject_adr == Get(subject, "price_per_night", R(100))
        n == Len(comps)
    IN  IF n = 0 THEN subject_adr
        ELSE RDiv(SumSeq([i \in 1..n |-> Get(comps[i], "price_per_night", subject_adr)], 1),
                  R(n))

FloorOf(x) ==
    CHOOSE n \in 0..365 : /\ RLe(R(n), x)
                          /\ RLt(x, R(n + 1))

FixedExpenses(inp, property_tax) ==
    RAdd(RAdd(RAdd(RAdd(RAdd(property_tax, inp.insurance_monthly),
                        inp.hoa_fees_monthly),
                   inp.utilities_monthly),
              inp.internet_monthly),
         inp.maintenance_monthly)

\* C27: monthly operating expenses = property tax + insurance + HOA +
\* utilities + internet + maintenance + average_case.monthly_revenue *
\* property_management_percent / 100, the property tax being purchase_price *
\* 0.012 / 12 when the configured tax is zero and the purchase price is known
\* (positive) and the configured tax otherwise; annual = monthly * 12; the
\* mortgage payment is no part of the sum, and the cash flow of each of the
\* three scenarios is its monthly revenue less this one figure less the
\* mortgage payment.
C27_OperatingExpenses ==
    [][\A f \in DOMAIN frame :
         LET fr == frame[f]
             configured == inputs[fr.eng]
             property_tax ==
                 IF configured.property_tax_monthly = R(0)
                    /\ RGt(configured.purchase_price, R(0))
                 THEN RDiv(RMul(configured.purchase_price, Q(12, 1000)), R(12))
                 ELSE configured.property_tax_monthly
             monthly ==
                 RAdd(FixedExpenses(configured, property_tax),
                      RDiv(RMul(fr.revenue_scenarios.average_case.monthly_revenue,
                                configured.property_management_percent),
                           R(100)))
         IN  /\ (fr.pc = "expenses" /\ frame'[f].pc = "cash_flows") =>
                    /\ inputs'[fr.eng].property_tax_monthly = property_tax
                    /\ frame'[f].monthly_op_expenses = monthly
                    /\ annual_op_expenses(frame'[f]) = RMul(monthly, R(12))
             /\ (/\ fr.pc = "cash_flows"
                 /\ frame'[f].pc = "roi"
                 /\ fr.loan_metrics.monthly_payment # Top) =>
                    \A k \in ScenarioSet :
                        fr.revenue_scenarios[k].monthly_revenue
                        = RAdd(RAdd(frame'[f].cash_flows[k].monthly,
                                    fr.monthly_op_expenses),
                               fr.loan_metrics.monthly_payment)]_vars

\* a result computed with no configured tax and an estimated price of
\* 1322212.5: the tax is 1322.2125 a month, and the expenses are the fixed ones
\* plus a management fee
C27_Witness ==
    \E f \in DOMAIN frame :
        LET fr == frame[f]
            inp == inputs[fr.eng]
        IN  /\ fr.pc = "done"
            /\ fr.args.custom = NoInterest
            /\ inp.purchase_price = Q(2644425, 2)
            /\ inp.property_tax_monthly = Q(105777, 80)
            /\ RGt(fr.monthly_op_expenses, FixedExpenses(inp, inp.property_tax_monthly))
            /\ fr.cash_flows.best_case.monthly
               = RSub(RSub(fr.revenue_scenarios.best_case.monthly_revenue,
                           fr.monthly_op_expenses),
                      fr.loan_metrics.monthly_payment)

\* C28: with NOI = average_case.annual_revenue - annual operating expenses
\* and annual debt service = 12 * monthly mortgage payment: cap_rate = NOI /
\* purchase_price * 100, and 0 if the price is 0; cash_on_cash_return = (NOI -
\* debt service) / total_investment * 100, and 0 if the investment is 0; DSCR =
\* NOI / debt service when the debt service is positive, and otherwise
\* +infinity if NOI > 0 and 0 if NOI <= 0.
C28_AdditionalMetrics ==
    \A f \in DOMAIN frame :
        LET fr == frame[f]
            inp == inputs[fr.eng]
            NOI == RSub(fr.revenue_scenarios.average_case.annual_revenue,
                        RMul(fr.monthly_op_expenses, R(12)))
            debt_service == RMul(R(12), fr.loan_metrics.monthly_payment)
            investment == fr.loan_metrics.total_investment
        IN  (Passed(fr, "additional") /\ fr.loan_metrics.monthly_payment # Top) =>
                /\ fr.additional_metrics.cap_rate =
                       IF inp.purchase_price = R(0) THEN R(0)
                       ELSE RMul(RDiv(NOI, inp.purchase_price), R(100))
                /\ fr.additional_metrics.cash_on_cash_return =
                       IF investment = R(0) THEN R(0)
                       ELSE RMul(RDiv(RSub(NOI, debt_service), investment), R(100))
                /\ fr.additional_metrics.dscr =
                       IF RGt(debt_service, R(0)) THEN RDiv(NOI, debt_service)
                       ELSE IF RGt(NOI, R(0)) THEN Inf ELSE R(0)

\* C29: in every result cash_on_cash_return equals the average case's ROI, and
\* the average case's annual cash flow equals NOI minus the annual debt
\* service.
C29_CashOnCashIsAverageRoi ==
    \A f \in DOMAIN frame :
        LET fr == frame[f]
            NOI == FSub(fr.revenue_scenarios.average_case.annual_revenue,
                        annual_op_expenses(fr))
            annual_debt_service == FMul(fr.loan_metrics.monthly_payment, R(12))
        IN  Passed(fr, "additional") =>
                /\ fr.additional_metrics.cash_on_cash_return = fr.roi_metrics.average_case.roi
                /\ fr.cash_flows.average_case.annual = FSub(NOI, annual_debt_service)

\* C30: a record that scrape_listing returns without an error, passed to
\* calculate_underwriting as the subject or among the comparables as /analyze
\* does, is analysed to the end: the analysis raises nothing and the request
\* is answered with the result.
C30_ScrapedRecordsAnalysed ==
    (req.route = "/analyze" /\ ~HasError(req.scraped) /\ req.calc_calls = 1) =>
        /\ req.pc = "running" => frame[1].pc # "raised"
        /\ req.pc = "responded" => req.status = 200

====
